---- MODULE Spec2Model ----
(***************************************************************************)
(* Model of netlify/functions/check-bundle-stock.js: the bundle stock      *)
(* check handler, its property parser and its inventory lookups against    *)
(* the commerce platform.                                                  *)
(*                                                                         *)
(* One handler invocation runs at a time in a process. Every await of a    *)
(* fetch is a point where the platform answers; an action is the code      *)
(* that runs from one such point to the next.                              *)
(***************************************************************************)
EXTENDS Integers, Sequences, FiniteSets, TLC

VARIABLES
    ObjectPrototype,  \* properties added to Object.prototype in this process
    platform,         \* the commerce platform: catalog pages, locations, levels
    pc,               \* where the handler is: idle, products, locations, levels, responded
    event,            \* the request being handled
    lineItems,        \* handler: lineItems
    results,          \* checkInventoryLevels: results
    idx,              \* checkInventoryLevels: position of `item` in lineItems
    allProducts,      \* getVariantBySKU: allProducts
    nextPageInfo,     \* getVariantBySKU: nextPageInfo
    pageCount,        \* getVariantBySKU: pageCount
    variantResult,    \* checkInventoryLevels: variantResult of the current item
    locationsData,    \* getInventoryLevel: locationsData.locations
    requests,         \* the fetch calls of this invocation, in order
    response          \* the handler's return value

vars == <<ObjectPrototype, platform, pc, event, lineItems, results, idx,
          allProducts, nextPageInfo, pageCount, variantResult, locationsData,
          requests, response>>

(***************************************************************************)
(* JavaScript values. Strings are strings; undefined and null are the two  *)
(* strings below, which no input uses as text.                             *)
(***************************************************************************)
Undefined == "<undefined>"
Null == "<null>"

\* ToBoolean on the values the model uses: '', undefined and null are falsy.
Truthy(v) == v \notin {"", Undefined, Null}

\* obj[name] for a plain object: the own property, else the one inherited
\* from Object.prototype, else undefined. `own` is a function from names.
PropRead(own, name, proto) ==
    IF name \in DOMAIN own THEN own[name]
    ELSE IF name \in DOMAIN proto THEN proto[name]
    ELSE Undefined

\* f with f[k] = v
Put(f, k, v) == [n \in (DOMAIN f) \cup {k} |-> IF n = k THEN v ELSE f[n]]

EmptyObject == [n \in {} |-> ""]

(***************************************************************************)
(* Property keys are sequences of tokens: ":" is a colon, " " a run of     *)
(* white space, any other token a run of other characters that neither     *)
(* starts nor ends with white space.                                       *)
(***************************************************************************)
RECURSIVE Join(_)
Join(tokens) == IF tokens = <<>> THEN "" ELSE Head(tokens) \o Join(Tail(tokens))

RECURSIVE TrimLeft(_)
TrimLeft(tokens) ==
    IF tokens # <<>> /\ Head(tokens) = " " THEN TrimLeft(Tail(tokens)) ELSE tokens

RECURSIVE TrimRight(_)
TrimRight(tokens) ==
    IF tokens # <<>> /\ tokens[Len(tokens)] = " "
    THEN TrimRight(SubSeq(tokens, 1, Len(tokens) - 1))
    ELSE tokens

\* String.prototype.trim
Trim(tokens) == Join(TrimRight(TrimLeft(tokens)))

\* key.match(/^(.+?):\s*(.+)$/): the lazy first group ends before the first
\* colon that has a character before it and a character after it.
KeyMatch(key) ==
    LET colons == {i \in 2..(Len(key) - 1) : key[i] = ":"}
    IN IF colons = {} THEN [matched |-> FALSE, productName |-> "", optionType |-> ""]
       ELSE LET i == CHOOSE c \in colons : \A d \in colons : c <= d
            IN [matched |-> TRUE,
                productName |-> Trim(SubSeq(key, 1, i - 1)),
                optionType |-> Trim(SubSeq(key, i + 1, Len(key)))]

(***************************************************************************)
(* The static product mapping. The model keeps two variants of each of     *)
(* the four products; the source lists 231.                                *)
(***************************************************************************)
MaxComfort == "Max Comfort Insoles"
FoamLock == "NonSlip 'FoamLock' Performance Insoles"
Slides == "Fleks® East Beach Slides"
CarbonElite == "NonSlip Carbon Elite Insole"

PRODUCT_SKU_MAPPING ==
    (MaxComfort :> ("Max Cushion|Low|Men's 5-5.5 | Women's 6-6.5" :> "CMXIN1M5"
                    @@ "Low Profile|High|Men's 13-13.5" :> "LPHIN1M13"))
    @@ (FoamLock :> ("Max Cushion|Low|Men's 5-5.5 | Women's 6-6.5" :> "KMXIN1M5"
                     @@ "Low Profile|High|Men's 13-13.5" :> "KLPHIN1M13"))
    @@ (Slides :> ("Blu Blue|Women's 5 | Men's 4" :> "808-1BLUW5"
                   @@ "Starfish|Women's 16 | Men's 15" :> "808-1STRW16"))
    @@ (CarbonElite :> ("Men's 5-5.5 | Women's 6-6.5" :> "KMXCEINM5"
                        @@ "Men's 13-13.5" :> "KMXCEINM13"))

(***************************************************************************)
(* Plain objects built by the parser keep their own properties in          *)
(* insertion order: a sequence of [name, value].                           *)
(***************************************************************************)
HasOwn(obj, name) == \E i \in 1..Len(obj) : obj[i].name = name

OwnProps(obj) ==
    [n \in {obj[i].name : i \in 1..Len(obj)} |->
        obj[CHOOSE i \in 1..Len(obj) : obj[i].name = n].value]

\* obj[name] = value on a plain object; assigning a string to __proto__
\* leaves the object as it is.
SetProp(obj, name, value) ==
    IF name = "__proto__" THEN obj
    ELSE IF HasOwn(obj, name)
    THEN [i \in 1..Len(obj) |->
            IF obj[i].name = name THEN [name |-> name, value |-> value] ELSE obj[i]]
    ELSE Append(obj, [name |-> name, value |-> value])

\* One turn of the loop of groupPropertiesByProduct. acc.groups is `groups`,
\* acc.proto is Object.prototype, which groups['__proto__'] evaluates to.
GroupProperty(acc, prop) ==
    LET m == KeyMatch(prop.key)
        own == \E i \in 1..Len(acc.groups) : acc.groups[i].name = m.productName
    IN IF ~m.matched THEN acc
       ELSE IF own
       THEN [acc EXCEPT !.groups =
                [i \in 1..Len(acc.groups) |->
                    IF acc.groups[i].name = m.productName
                    THEN [acc.groups[i] EXCEPT
                            !.options = SetProp(@, m.optionType, prop.value)]
                    ELSE acc.groups[i]]]
       ELSE IF m.productName = "__proto__"
       THEN IF m.optionType = "__proto__" THEN acc
            ELSE [acc EXCEPT !.proto = Put(@, m.optionType, prop.value)]
       ELSE IF Truthy(PropRead(EmptyObject, m.productName, acc.proto))
       THEN acc   \* the inherited value is a string: the assignment is dropped
       ELSE [acc EXCEPT !.groups =
                Append(@, [name |-> m.productName,
                           options |-> SetProp(<<>>, m.optionType, prop.value)])]

RECURSIVE GroupAll(_, _)
GroupAll(acc, properties) ==
    IF properties = <<>> THEN acc
    ELSE GroupAll(GroupProperty(acc, Head(properties)), Tail(properties))

\* groupPropertiesByProduct: the groups, and Object.prototype as it leaves it
groupPropertiesByProduct(properties, proto) ==
    GroupAll([groups |-> <<>>, proto |-> proto], properties)

\* findSKUForProduct; a null return is Null
findSKUForProduct(productName, selectedOptions, proto) ==
    IF productName \notin DOMAIN PRODUCT_SKU_MAPPING THEN Null
    ELSE
    LET productMapping == PRODUCT_SKU_MAPPING[productName]
        opt(name) == PropRead(OwnProps(selectedOptions), name, proto)
        variantKey ==
            IF productName = MaxComfort \/ productName = FoamLock
            THEN IF Truthy(opt("Profile")) /\ Truthy(opt("Arch Support")) /\ Truthy(opt("Size"))
                 THEN opt("Profile") \o "|" \o opt("Arch Support") \o "|" \o opt("Size")
                 ELSE Undefined
            ELSE IF productName = Slides
            THEN IF Truthy(opt("Color")) /\ Truthy(opt("Size"))
                 THEN opt("Color") \o "|" \o opt("Size")
                 ELSE Undefined
            ELSE IF productName = CarbonElite
            THEN IF Truthy(opt("Size")) THEN opt("Size") ELSE Undefined
            ELSE Undefined
    IN IF Truthy(variantKey) /\ Truthy(PropRead(productMapping, variantKey, proto))
       THEN PropRead(productMapping, variantKey, proto)
       ELSE Null

\* convertToOriginalProperties
convertToOriginalProperties(productName, selectedOptions) ==
    [i \in 1..Len(selectedOptions) |->
        [name |-> productName \o ": " \o selectedOptions[i].name,
         value |-> selectedOptions[i].value]]

RECURSIVE LineItemsOf(_, _)
LineItemsOf(groups, proto) ==
    IF groups = <<>> THEN <<>>
    ELSE LET g == Head(groups)
             sku == findSKUForProduct(g.name, g.options, proto)
         IN (IF Truthy(sku)
             THEN <<[sku |-> sku, quantity |-> 1,
                     properties |-> convertToOriginalProperties(g.name, g.options)]>>
             ELSE <<>>) \o LineItemsOf(Tail(groups), proto)

\* parsePropertiesToSKUs: the line items, and Object.prototype as it leaves it
parsePropertiesToSKUs(properties, proto) ==
    LET grouped == groupPropertiesByProduct(properties, proto)
    IN [lineItems |-> LineItemsOf(grouped.groups, grouped.proto),
        proto |-> grouped.proto]

(***************************************************************************)
(* The platform. A catalog is a sequence of pages; a page holds products   *)
(* and the Link header sent with it; page_info cursors are page numbers    *)
(* and 0 is a URL without page_info. Quantities are JSON values. No        *)
(* option type of the model's requests names a field of the platform's     *)
(* JSON, so a field the platform leaves out reads undefined.               *)
(***************************************************************************)
Num(n) == [type |-> "number", n |-> n]
NullQty == [type |-> "null"]
NoQty == [type |-> "undefined"]
Unlimited == [type |-> "string", s |-> "unlimited"]

MaxCatalogPages == 11   \* longest catalog of the model
MaxLocations == 2       \* most locations of the model
MaxAvailable == 2       \* largest quantity at one location

Sku1 == "808-1BLUW5"
Sku2 == "KMXCEINM5"

InventoryItemId(sku) == IF sku = Sku1 THEN 101 ELSE IF sku = Sku2 THEN 102 ELSE 100

Variant(sku, management, policy) ==
    [id |-> InventoryItemId(sku) + 100, sku |-> sku, inventory_management |-> management,
     inventory_policy |-> policy, inventory_item_id |-> InventoryItemId(sku)]

Product(id, skus, management, policy) ==
    [id |-> id, title |-> "product",
     variants |-> [i \in 1..Len(skus) |-> Variant(skus[i], management, policy)]]

\* the Link header of page k of n: rel="previous" before rel="next"
PageLink(k, n, loop) ==
    (IF k > 1 THEN <<[page_info |-> k - 1, rel |-> "previous"]>> ELSE <<>>)
    \o (IF k < n THEN <<[page_info |-> k + 1, rel |-> "next"]>>
        ELSE IF loop THEN <<[page_info |-> 1, rel |-> "next"]>>
        ELSE <<>>)

\* n pages with one other product each, Sku1 on page p1 and Sku2 on page p2
\* (0: nowhere)
Catalog(n, p1, p2, m1, pol1, m2, loop) ==
    [k \in 1..n |->
        [products |-> <<Product(k, <<"CMXIN1M5">>, "shopify", "deny")>>
                      \o (IF p1 = k THEN <<Product(20, <<"808-1BLUW6", Sku1>>, m1, pol1)>> ELSE <<>>)
                      \o (IF p2 = k THEN <<Product(30, <<Sku2>>, m2, "deny")>> ELSE <<>>),
         link |-> PageLink(k, n, loop)]]

\* a two-page catalog whose first page names a next URL without page_info
BrokenCatalog ==
    [k \in 1..2 |->
        [products |-> IF k = 1 THEN <<Product(1, <<Sku1>>, "shopify", "deny")>>
                      ELSE <<Product(2, <<Sku2>>, "shopify", "deny")>>,
         link |-> IF k = 1 THEN <<[page_info |-> 0, rel |-> "next"]>>
                  ELSE <<[page_info |-> 1, rel |-> "previous"]>>]]

\* a two-page catalog with three variants of Sku1, after a SKU of another
\* case: two in one product of page 1, one on page 2
DuplicateCatalog ==
    <<[products |-> <<Product(1, <<"808-1bluw5">>, "shopify", "deny"),
                      [id |-> 20, title |-> "product",
                       variants |-> <<[Variant(Sku1, "shopify", "deny") EXCEPT !.id = 301],
                                      [Variant(Sku1, Null, "deny") EXCEPT !.id = 302]>>]>>,
       link |-> PageLink(1, 2, FALSE)],
      [products |-> <<[id |-> 40, title |-> "product",
                       variants |-> <<[Variant(Sku1, "fulfillment-service", "deny")
                                        EXCEPT !.id = 303]>>],
                      Product(30, <<Sku2>>, "shopify", "deny")>>,
       link |-> PageLink(2, 2, FALSE)]>>

DefaultCatalog == Catalog(1, 1, 1, "shopify", "deny", "shopify", FALSE)

Location(id) == [id |-> id, name |-> "warehouse", active |-> TRUE]

Locations(n) == [i \in 1..n |-> Location(i)]

\* the levels of one item: quantities[i] at location i
Levels(item, quantities) ==
    [i \in 1..Len(quantities) |->
        IF quantities[i] = NoQty
        THEN [inventory_item_id |-> item, location_id |-> i]
        ELSE [inventory_item_id |-> item, location_id |-> i, available |-> quantities[i]]]

Quantities == {Num(n) : n \in (-1)..MaxAvailable} \cup {NullQty, NoQty}

QuantityLists == UNION {[1..n -> Quantities] : n \in 0..MaxLocations}

DefaultLocations == Locations(MaxLocations)

DefaultLevels == Levels(101, <<Num(1), Num(0)>>) \o Levels(102, <<Num(2)>>)

\* nothing on hand of the first item: 0 at one location, null at the other
SoldOutLevels == Levels(101, <<Num(0), NullQty>>) \o Levels(102, <<Num(2)>>)

Managements == {"shopify", Null, Undefined, "fulfillment-service"}

PlatformSet ==
    \* catalogs of every length, the two SKUs on the first or last page or absent
    UNION {{[catalog |-> Catalog(n, p1, p2, "shopify", "deny", "shopify", FALSE),
             locations |-> DefaultLocations, levels |-> DefaultLevels] :
                p1 \in {0, 1, n}, p2 \in {1, n}} : n \in 1..MaxCatalogPages}
    \cup
    \* catalogs whose last page names the first as next, the broken one and
    \* the one with a SKU on several variants
    {[catalog |-> c, locations |-> DefaultLocations, levels |-> DefaultLevels] :
        c \in {Catalog(n, n, 1, "shopify", "deny", "shopify", TRUE) : n \in 1..2}
              \cup {BrokenCatalog, DuplicateCatalog}}
    \cup
    \* every tracking mode and policy
    {[catalog |-> Catalog(1, 1, 1, m1, pol1, m2, FALSE),
      locations |-> DefaultLocations, levels |-> DefaultLevels] :
        m1 \in Managements, pol1 \in {"deny", "continue"}, m2 \in {"shopify", Null}}
    \cup
    \* every list of locations and of quantities of the first item
    {[catalog |-> DefaultCatalog, locations |-> Locations(n),
      levels |-> Levels(101, q) \o Levels(102, <<Num(2)>>)] :
        n \in 0..MaxLocations, q \in QuantityLists}
    \cup
    \* a tracked variant with nothing on hand, under either policy
    {[catalog |-> Catalog(1, 1, 1, "shopify", pol1, "shopify", FALSE),
      locations |-> DefaultLocations, levels |-> SoldOutLevels] :
        pol1 \in {"deny", "continue"}}

DefaultPlatform ==
    [catalog |-> DefaultCatalog, locations |-> DefaultLocations, levels |-> DefaultLevels]

(***************************************************************************)
(* The fetch calls. No call passes a method: each is a GET. `item` is the   *)
(* position of the line item the call is made for, `reply` what came back. *)
(***************************************************************************)
ProductsRequest(pageInfo, item) ==
    [method |-> "GET", endpoint |-> "products", page_info |-> pageInfo,
     inventory_item_ids |-> 0, location_ids |-> <<>>, item |-> item, reply |-> "pending"]

LocationsRequest(item) ==
    [method |-> "GET", endpoint |-> "locations", page_info |-> 0,
     inventory_item_ids |-> 0, location_ids |-> <<>>, item |-> item, reply |-> "pending"]

\* mutant: only the first location is named
LocationIds_FirstOnly(locations) == <<locations[1].id>>

\* locationsData.locations.map(loc => loc.id)
LocationIds(locations) == [i \in 1..Len(locations) |-> locations[i].id]

\* mutant: the call adjusts the levels instead of reading them
LevelsRequest_Adjust(inventoryItemId, locations, item) ==
    [method |-> "POST", endpoint |-> "inventory_levels", page_info |-> 0,
     inventory_item_ids |-> inventoryItemId, location_ids |-> LocationIds(locations),
     item |-> item, reply |-> "pending"]

LevelsRequest(inventoryItemId, locations, item) ==
    [method |-> "GET", endpoint |-> "inventory_levels", page_info |-> 0,
     inventory_item_ids |-> inventoryItemId, location_ids |-> LocationIds(locations),
     item |-> item, reply |-> "pending"]

\* What the platform does with a call: a GET leaves it as it is, anything
\* else to inventory_levels sets the named item's quantities to 0.
PlatformAfter(p, request) ==
    IF request.method = "GET" THEN p
    ELSE [p EXCEPT !.levels =
            [i \in 1..Len(p.levels) |->
                IF p.levels[i].inventory_item_id = request.inventory_item_ids
                THEN [inventory_item_id |-> p.levels[i].inventory_item_id,
                      location_id |-> p.levels[i].location_id, available |-> Num(0)]
                ELSE p.levels[i]]]

\* The page a products call is answered with
PageFor(p, request) ==
    p.catalog[IF request.page_info = 0 THEN 1 ELSE request.page_info]

\* The levels an inventory_levels call is answered with
LevelsFor(p, request) ==
    SelectSeq(p.levels,
        LAMBDA l : /\ l.inventory_item_id = request.inventory_item_ids
                   /\ \E i \in 1..Len(request.location_ids) :
                        request.location_ids[i] = l.location_id)

ResponseKinds == {"ok", "notok", "throws"}

(***************************************************************************)
(* getVariantBySKU                                                         *)
(***************************************************************************)
maxPages == 10

\* mutant: the cursor of the first link of the header, whatever its rel
NextCursor_AnyRel(link) ==
    LET hits == {i \in 1..Len(link) : link[i].page_info # 0}
    IN IF hits = {} THEN 0
       ELSE link[CHOOSE i \in hits : \A j \in hits : i <= j].page_info

\* linkHeader.match(/<[^>]*[?&]page_info=([^>&]+)[^>]*>;\s*rel="next"/)
\* after linkHeader.includes('rel="next"'): the cursor of the first link
\* that has one and is rel="next", else null (0)
NextCursor(link) ==
    LET hits == {i \in 1..Len(link) : link[i].rel = "next" /\ link[i].page_info # 0}
    IN IF hits = {} THEN 0
       ELSE link[CHOOSE i \in hits : \A j \in hits : i <= j].page_info

\* mutant: the loop stops one page early
MorePages_OffByOne(cursor, count) == cursor # 0 /\ count < maxPages - 1

\* mutant: the loop has no page limit
MorePages_NoLimit(cursor, count) == cursor # 0

\* the condition of the do ... while
MorePages(cursor, count) == cursor # 0 /\ count < maxPages

\* the variants of the products, in order, each with its product
RECURSIVE VariantsOf(_)
VariantsOf(products) ==
    IF products = <<>> THEN <<>>
    ELSE [i \in 1..Len(Head(products).variants) |->
            [variant |-> Head(products).variants[i], product |-> Head(products).id]]
         \o VariantsOf(Tail(products))

\* mutant: the search returns the last variant with the SKU
FindVariant_Last(products, sku) ==
    LET all == VariantsOf(products)
        hits == {i \in 1..Len(all) : all[i].variant.sku = sku}
    IN IF hits = {}
       THEN [found |-> FALSE, searchedProducts |-> Len(products)]
       ELSE LET last == CHOOSE i \in hits : \A j \in hits : j <= i
            IN [found |-> TRUE, variant |-> all[last].variant,
                product |-> all[last].product, searchedProducts |-> Len(products)]

\* the search loop and the value getVariantBySKU returns
FindVariant(products, sku) ==
    LET all == VariantsOf(products)
        hits == {i \in 1..Len(all) : all[i].variant.sku = sku}
    IN IF hits = {}
       THEN [found |-> FALSE, searchedProducts |-> Len(products)]
       ELSE LET first == CHOOSE i \in hits : \A j \in hits : i <= j
            IN [found |-> TRUE, variant |-> all[first].variant,
                product |-> all[first].product, searchedProducts |-> Len(products)]

NoVariantResult == [found |-> FALSE, searchedProducts |-> -1]

(***************************************************************************)
(* getInventoryLevel                                                       *)
(***************************************************************************)
\* mutant: a negative quantity counts 0
AvailableOrZero_Clamped(level) ==
    IF "available" \in DOMAIN level /\ level.available.type = "number"
       /\ level.available.n > 0
    THEN level.available.n
    ELSE 0

\* level.available || 0
AvailableOrZero(level) ==
    IF "available" \in DOMAIN level /\ level.available.type = "number"
    THEN level.available.n
    ELSE 0

RECURSIVE TotalAvailable(_)
TotalAvailable(levels) ==
    IF levels = <<>> THEN 0
    ELSE AvailableOrZero(Head(levels)) + TotalAvailable(Tail(levels))

LocationBreakdown(levels, locations) ==
    [i \in 1..Len(levels) |->
        [locationId |-> levels[i].location_id,
         locationName |->
            IF \E j \in 1..Len(locations) : locations[j].id = levels[i].location_id
            THEN locations[CHOOSE j \in 1..Len(locations) :
                              locations[j].id = levels[i].location_id].name
            ELSE "Unknown",
         available |-> AvailableOrZero(levels[i])]]

InventorySuccess(levels, locations) ==
    [success |-> TRUE, totalAvailable |-> TotalAvailable(levels),
     locations |-> LocationBreakdown(levels, locations)]

InventoryFailure(message) ==
    [success |-> FALSE, error |-> message, totalAvailable |-> 0, locations |-> <<>>]

(***************************************************************************)
(* checkInventoryLevels: the stock results                                 *)
(***************************************************************************)
\* mutant: a variant that is not found counts as available
NotFoundResult_Available(item, found) ==
    [sku |-> item.sku, quantity |-> item.quantity, available |-> TRUE,
     error |-> "Product variant not found", availableQuantity |-> Num(0),
     debug |-> [variantFound |-> FALSE, searchedProducts |-> found.searchedProducts]]

NotFoundResult(item, found) ==
    [sku |-> item.sku, quantity |-> item.quantity, available |-> FALSE,
     error |-> "Product variant not found", availableQuantity |-> Num(0),
     debug |-> [variantFound |-> FALSE, searchedProducts |-> found.searchedProducts]]

UntrackedResult(item, variant) ==
    [sku |-> item.sku, quantity |-> item.quantity, available |-> TRUE,
     availableQuantity |-> Unlimited, variantId |-> variant.id,
     inventoryItemId |-> variant.inventory_item_id,
     inventoryPolicy |-> variant.inventory_policy,
     inventoryManagement |-> variant.inventory_management,
     debug |-> [variantFound |-> TRUE, inventoryTracked |-> FALSE]]

\* mutant: a failed inventory read counts as available
InventoryFailedResult_FailOpen(item, variant, inventoryResult) ==
    [sku |-> item.sku, quantity |-> item.quantity, available |-> TRUE,
     error |-> inventoryResult.error, availableQuantity |-> Num(0),
     variantId |-> variant.id, inventoryItemId |-> variant.inventory_item_id,
     debug |-> [variantFound |-> TRUE, inventoryTracked |-> TRUE,
                inventoryCheckFailed |-> TRUE, error |-> inventoryResult.error,
                locations |-> inventoryResult.locations]]

InventoryFailedResult(item, variant, inventoryResult) ==
    [sku |-> item.sku, quantity |-> item.quantity, available |-> FALSE,
     error |-> inventoryResult.error, availableQuantity |-> Num(0),
     variantId |-> variant.id, inventoryItemId |-> variant.inventory_item_id,
     debug |-> [variantFound |-> TRUE, inventoryTracked |-> TRUE,
                inventoryCheckFailed |-> TRUE, error |-> inventoryResult.error,
                locations |-> inventoryResult.locations]]

\* mutant: the comparison is strict
IsAvailable_Strict(totalAvailable, quantity) == totalAvailable > quantity

\* totalAvailable >= item.quantity
IsAvailable(totalAvailable, quantity) == totalAvailable >= quantity

\* mutant: a variant whose policy is 'continue' is always available
TrackedResult_HonoursPolicy(item, variant, inventoryResult) ==
    [sku |-> item.sku, quantity |-> item.quantity,
     available |-> \/ IsAvailable(inventoryResult.totalAvailable, item.quantity)
                   \/ variant.inventory_policy = "continue",
     availableQuantity |-> Num(inventoryResult.totalAvailable),
     variantId |-> variant.id, inventoryItemId |-> variant.inventory_item_id,
     inventoryPolicy |-> variant.inventory_policy,
     inventoryManagement |-> variant.inventory_management,
     debug |-> [variantFound |-> TRUE, inventoryTracked |-> TRUE,
                locations |-> inventoryResult.locations,
                totalAvailable |-> inventoryResult.totalAvailable]]

TrackedResult(item, variant, inventoryResult) ==
    [sku |-> item.sku, quantity |-> item.quantity,
     available |-> IsAvailable(inventoryResult.totalAvailable, item.quantity),
     availableQuantity |-> Num(inventoryResult.totalAvailable),
     variantId |-> variant.id, inventoryItemId |-> variant.inventory_item_id,
     inventoryPolicy |-> variant.inventory_policy,
     inventoryManagement |-> variant.inventory_management,
     debug |-> [variantFound |-> TRUE, inventoryTracked |-> TRUE,
                locations |-> inventoryResult.locations,
                totalAvailable |-> inventoryResult.totalAvailable]]

ExceptionResult(item, message) ==
    [sku |-> item.sku, quantity |-> item.quantity, available |-> FALSE,
     error |-> message, availableQuantity |-> Num(0),
     debug |-> [exception |-> message]]

\* mutant: only a null inventory_management counts as not tracked
NotTracked_NullOnly(variant) == variant.inventory_management = Null

\* variant.inventory_management !== 'shopify'
NotTracked(variant) == variant.inventory_management # "shopify"

(***************************************************************************)
(* handler                                                                 *)
(***************************************************************************)
NoResponse == [statusCode |-> 0, body |-> [kind |-> "none"]]

ErrorResponse(status, message) ==
    [statusCode |-> status, body |-> [kind |-> "error", error |-> message]]

\* mutant: only fewer than 2 line items are turned away
BundleError_AtLeastTwo(n) ==
    IF n = 0 THEN "No valid SKUs found from properties - could not map any products"
    ELSE IF n = 1 THEN "Bundle incomplete - only found 1 product SKU, expected 2 products"
    ELSE ""

\* the checks on lineItems.length: the error, or "" to go on
BundleError(n) ==
    IF n = 0 THEN "No valid SKUs found from properties - could not map any products"
    ELSE IF n = 1 THEN "Bundle incomplete - only found 1 product SKU, expected 2 products"
    ELSE IF n # 2 THEN "Invalid bundle configuration - expected exactly 2"
    ELSE ""

\* stockResults.filter(item => !item.available)
OutOfStock(stockResults) == SelectSeq(stockResults, LAMBDA r : ~r.available)

\* mutant: one available item is enough
StockResponse_AnyInStock(items, stockResults) ==
    IF Len(OutOfStock(stockResults)) < Len(stockResults)
    THEN [statusCode |-> 200,
          body |-> [kind |-> "stock", available |-> TRUE, message |-> "All items in stock",
                    lineItems |-> items, stockResults |-> stockResults]]
    ELSE [statusCode |-> 200,
          body |-> [kind |-> "stock", available |-> FALSE,
                    message |-> "Some items are out of stock",
                    outOfStockItems |-> OutOfStock(stockResults),
                    stockResults |-> stockResults, lineItems |-> items]]

\* the analysis of the results and the 200 answer
StockResponse(items, stockResults) ==
    IF Len(OutOfStock(stockResults)) = 0
    THEN [statusCode |-> 200,
          body |-> [kind |-> "stock", available |-> TRUE, message |-> "All items in stock",
                    lineItems |-> items, stockResults |-> stockResults]]
    ELSE [statusCode |-> 200,
          body |-> [kind |-> "stock", available |-> FALSE,
                    message |-> "Some items are out of stock",
                    outOfStockItems |-> OutOfStock(stockResults),
                    stockResults |-> stockResults, lineItems |-> items]]

NoEvent ==
    [httpMethod |-> "", bodyParses |-> FALSE, hasProperties |-> FALSE,
     properties |-> <<>>, credentials |-> FALSE]

\* the answer to the pending fetch is in
Answered(log, kind) == [i \in 1..Len(log) |->
                          IF i = Len(log) THEN [log[i] EXCEPT !.reply = kind] ELSE log[i]]

\* a fetch call: the call is recorded and the platform serves it
Send(request, log) ==
    /\ requests' = Append(log, request)
    /\ platform' = PlatformAfter(platform, request)

\* the handler returns
Return(r) ==
    /\ response' = r
    /\ pc' = "responded"

\* mutant: the result is put before the earlier ones
Pushed_Unshift(r, log) ==
    /\ results' = <<r>> \o results
    /\ IF idx < Len(lineItems)
       THEN /\ idx' = idx + 1
            /\ allProducts' = <<>>
            /\ nextPageInfo' = 0
            /\ pageCount' = 1
            /\ variantResult' = NoVariantResult
            /\ locationsData' = <<>>
            /\ Send(ProductsRequest(0, idx + 1), log)
            /\ pc' = "products"
            /\ UNCHANGED response
       ELSE /\ Return(StockResponse(lineItems, <<r>> \o results))
            /\ requests' = log
            /\ UNCHANGED <<idx, allProducts, nextPageInfo, pageCount, variantResult,
                           locationsData, platform>>

\* mutant: the next lookup starts at the cursor the last one ended with
Pushed_KeepCursor(r, log) ==
    /\ results' = Append(results, r)
    /\ IF idx < Len(lineItems)
       THEN /\ idx' = idx + 1
            /\ allProducts' = <<>>
            /\ nextPageInfo' = 0
            /\ pageCount' = 1
            /\ variantResult' = NoVariantResult
            /\ locationsData' = <<>>
            /\ Send(ProductsRequest(nextPageInfo, idx + 1), log)
            /\ pc' = "products"
            /\ UNCHANGED response
       ELSE /\ Return(StockResponse(lineItems, Append(results, r)))
            /\ requests' = log
            /\ UNCHANGED <<idx, allProducts, nextPageInfo, pageCount, variantResult,
                           locationsData, platform>>

\* checkInventoryLevels after results.push(r): the next turn of the loop
\* calls getVariantBySKU, which sends its first call; after the last turn
\* the handler analyses the results and returns
Pushed(r, log) ==
    /\ results' = Append(results, r)
    /\ IF idx < Len(lineItems)
       THEN /\ idx' = idx + 1
            /\ allProducts' = <<>>
            /\ nextPageInfo' = 0
            /\ pageCount' = 1
            /\ variantResult' = NoVariantResult
            /\ locationsData' = <<>>
            /\ Send(ProductsRequest(0, idx + 1), log)
            /\ pc' = "products"
            /\ UNCHANGED response
       ELSE /\ Return(StockResponse(lineItems, Append(results, r)))
            /\ requests' = log
            /\ UNCHANGED <<idx, allProducts, nextPageInfo, pageCount, variantResult,
                           locationsData, platform>>

\* exports.handler up to its first await or its return
Invoke(e) ==
    /\ pc = "idle"
    /\ event' = e
    /\ IF e.httpMethod = "OPTIONS"
       THEN /\ Return([statusCode |-> 200, body |-> [kind |-> "empty"]])
            /\ UNCHANGED <<ObjectPrototype, platform, lineItems, results, idx, allProducts,
                           nextPageInfo, pageCount, variantResult, locationsData, requests>>
       ELSE IF e.httpMethod # "POST"
       THEN /\ Return(ErrorResponse(405, "Method not allowed"))
            /\ UNCHANGED <<ObjectPrototype, platform, lineItems, results, idx, allProducts,
                           nextPageInfo, pageCount, variantResult, locationsData, requests>>
       ELSE IF ~e.bodyParses
       THEN /\ Return(ErrorResponse(500, "Internal server error"))
            /\ UNCHANGED <<ObjectPrototype, platform, lineItems, results, idx, allProducts,
                           nextPageInfo, pageCount, variantResult, locationsData, requests>>
       ELSE IF ~e.hasProperties
       THEN /\ Return(ErrorResponse(400, "Invalid properties data"))
            /\ UNCHANGED <<ObjectPrototype, platform, lineItems, results, idx, allProducts,
                           nextPageInfo, pageCount, variantResult, locationsData, requests>>
       ELSE IF ~e.credentials
       THEN /\ Return(ErrorResponse(500, "Missing Shopify credentials"))
            /\ UNCHANGED <<ObjectPrototype, platform, lineItems, results, idx, allProducts,
                           nextPageInfo, pageCount, variantResult, locationsData, requests>>
       ELSE LET parsed == parsePropertiesToSKUs(e.properties, ObjectPrototype)
            IN /\ ObjectPrototype' = parsed.proto
               /\ lineItems' = parsed.lineItems
               /\ IF BundleError(Len(parsed.lineItems)) # ""
                  THEN /\ Return(ErrorResponse(400, BundleError(Len(parsed.lineItems))))
                       /\ UNCHANGED <<platform, results, idx, allProducts, nextPageInfo,
                                      pageCount, variantResult, locationsData, requests>>
                  ELSE /\ idx' = 1
                       /\ pageCount' = 1
                       /\ Send(ProductsRequest(0, 1), requests)
                       /\ pc' = "products"
                       /\ UNCHANGED <<results, allProducts, nextPageInfo, variantResult,
                                      locationsData, response>>

\* getVariantBySKU from the answer to its fetch to its next fetch or its
\* return, and checkInventoryLevels from there to the next fetch
ProductsResponse(kind) ==
    /\ pc = "products"
    /\ UNCHANGED <<ObjectPrototype, event, lineItems>>
    /\ LET item == lineItems[idx]
           page == PageFor(platform, requests[Len(requests)])
           products == allProducts \o page.products
           cursor == NextCursor(page.link)
           found == FindVariant(products, item.sku)
           log == Answered(requests, kind)
       IN IF kind = "notok"
          THEN Pushed(ExceptionResult(item, "Failed to fetch products"), log)
          ELSE IF kind = "throws"
          THEN Pushed(ExceptionResult(item, "fetch failed"), log)
          ELSE IF MorePages(cursor, pageCount)
          THEN /\ allProducts' = products
               /\ nextPageInfo' = cursor
               /\ pageCount' = pageCount + 1
               /\ Send(ProductsRequest(cursor, idx), log)
               /\ UNCHANGED <<pc, results, idx, variantResult, locationsData, response>>
          ELSE IF ~found.found
          THEN Pushed(NotFoundResult(item, found), log)
          ELSE IF NotTracked(found.variant)
          THEN Pushed(UntrackedResult(item, found.variant), log)
          ELSE /\ allProducts' = products
               /\ nextPageInfo' = cursor
               /\ variantResult' = found
               /\ Send(LocationsRequest(idx), log)
               /\ pc' = "locations"
               /\ UNCHANGED <<results, idx, pageCount, locationsData, response>>

\* getInventoryLevel from the answer to the locations fetch
LocationsResponse(kind) ==
    /\ pc = "locations"
    /\ UNCHANGED <<ObjectPrototype, event, lineItems>>
    /\ LET item == lineItems[idx]
           variant == variantResult.variant
           log == Answered(requests, kind)
       IN IF kind = "notok"
          THEN Pushed(InventoryFailedResult(item, variant,
                        InventoryFailure("Failed to fetch locations")), log)
          ELSE IF kind = "throws"
          THEN Pushed(InventoryFailedResult(item, variant,
                        InventoryFailure("fetch failed")), log)
          ELSE IF Len(platform.locations) = 0
          THEN Pushed(InventoryFailedResult(item, variant,
                        [success |-> FALSE, error |-> "No locations found",
                         locations |-> <<>>, totalAvailable |-> 0]), log)
          ELSE /\ locationsData' = platform.locations
               /\ Send(LevelsRequest(variant.inventory_item_id, platform.locations, idx), log)
               /\ pc' = "levels"
               /\ UNCHANGED <<results, idx, allProducts, nextPageInfo, pageCount,
                              variantResult, response>>

\* getInventoryLevel from the answer to the inventory_levels fetch
LevelsResponse(kind) ==
    /\ pc = "levels"
    /\ UNCHANGED <<ObjectPrototype, event, lineItems>>
    /\ LET item == lineItems[idx]
           variant == variantResult.variant
           levels == LevelsFor(platform, requests[Len(requests)])
           log == Answered(requests, kind)
       IN IF kind = "notok"
          THEN Pushed(InventoryFailedResult(item, variant,
                        InventoryFailure("Failed to fetch inventory levels")), log)
          ELSE IF kind = "throws"
          THEN Pushed(InventoryFailedResult(item, variant,
                        InventoryFailure("fetch failed")), log)
          ELSE Pushed(TrackedResult(item, variant,
                        InventorySuccess(levels, locationsData)), log)

\* the answer is delivered and the process waits for its next invocation
Deliver ==
    /\ pc = "responded"
    /\ pc' = "idle"
    /\ event' = NoEvent
    /\ lineItems' = <<>>
    /\ results' = <<>>
    /\ idx' = 0
    /\ allProducts' = <<>>
    /\ nextPageInfo' = 0
    /\ pageCount' = 0
    /\ variantResult' = NoVariantResult
    /\ locationsData' = <<>>
    /\ requests' = <<>>
    /\ response' = NoResponse
    /\ UNCHANGED <<ObjectPrototype, platform>>

StartState ==
    /\ ObjectPrototype = EmptyObject
    /\ pc = "idle"
    /\ event = NoEvent
    /\ lineItems = <<>>
    /\ results = <<>>
    /\ idx = 0
    /\ allProducts = <<>>
    /\ nextPageInfo = 0
    /\ pageCount = 0
    /\ variantResult = NoVariantResult
    /\ locationsData = <<>>
    /\ requests = <<>>
    /\ response = NoResponse

(***************************************************************************)
(* Requests                                                                *)
(***************************************************************************)
Prop(key, value) == [key |-> key, value |-> value]

\* "Product: Option"
Key(product, option) == <<product, ":", " ", option>>

Post(properties) ==
    [httpMethod |-> "POST", bodyParses |-> TRUE, hasProperties |-> TRUE,
     properties |-> properties, credentials |-> TRUE]

SlidesProperties ==
    <<Prop(Key(Slides, "Color"), "Blu Blue"), Prop(Key(Slides, "Size"), "Women's 5 | Men's 4")>>

CarbonEliteProperties == <<Prop(Key(CarbonElite, "Size"), "Men's 5-5.5 | Women's 6-6.5")>>

MaxComfortProperties ==
    <<Prop(Key(MaxComfort, "Profile"), "Max Cushion"),
      Prop(Key(MaxComfort, "Arch Support"), "Low"),
      Prop(Key(MaxComfort, "Size"), "Men's 5-5.5 | Women's 6-6.5")>>

FoamLockProperties ==
    <<Prop(Key(FoamLock, "Size"), "Men's 13-13.5"),
      Prop(Key(FoamLock, "Arch Support"), "High"),
      Prop(Key(FoamLock, "Profile"), "Low Profile")>>

\* the requests of Spec: bundles of 0 to 4 products, and the requests the
\* handler turns away before it reads the properties
Events ==
    {Post(SlidesProperties \o CarbonEliteProperties),
     Post(CarbonEliteProperties \o SlidesProperties),
     Post(<<>>),
     Post(SlidesProperties),
     Post(SlidesProperties \o CarbonEliteProperties \o MaxComfortProperties),
     Post(SlidesProperties \o CarbonEliteProperties \o MaxComfortProperties
          \o FoamLockProperties),
     [Post(<<>>) EXCEPT !.httpMethod = "OPTIONS"],
     [Post(<<>>) EXCEPT !.httpMethod = "GET"],
     [Post(<<>>) EXCEPT !.bodyParses = FALSE],
     [Post(<<>>) EXCEPT !.hasProperties = FALSE],
     [Post(SlidesProperties \o CarbonEliteProperties) EXCEPT !.credentials = FALSE]}

MaxProperties == 3   \* most properties of a request of SpecParse

PropertyPool ==
    {SlidesProperties[1], SlidesProperties[2], CarbonEliteProperties[1],
     Prop(<<CarbonElite, ":", "Size">>, "Men's 13-13.5"),
     Prop(Key(CarbonElite, "Size"), ""),
     Prop(Key(CarbonElite, "Size"), "Men's 99"),
     Prop(Key(CarbonElite, "Notes"), "gift"),
     Prop(<<":", CarbonElite, ":", "Size">>, "Men's 13-13.5"),
     Prop(<<"Note">>, "gift"),
     Prop(Key("Gift Wrap", "Size"), "Men's 13-13.5"),
     Prop(Key("__proto__", "Size"), "Men's 13-13.5")}

\* the property lists of SpecParse: an object has each key once
PropertyLists ==
    {p \in UNION {[1..n -> PropertyPool] : n \in 0..MaxProperties} :
        \A i, j \in 1..Len(p) : i # j => p[i].key # p[j].key}

ParseEvents == {Post(p) : p \in PropertyLists}

(***************************************************************************)
(* Specifications                                                          *)
(***************************************************************************)
Init ==
    /\ StartState
    /\ platform \in PlatformSet

Next ==
    \/ \E e \in Events : Invoke(e)
    \/ \E kind \in ResponseKinds : ProductsResponse(kind)
    \/ \E kind \in ResponseKinds : LocationsResponse(kind)
    \/ \E kind \in ResponseKinds : LevelsResponse(kind)
    \/ Deliver

Spec == Init /\ [][Next]_vars

\* one platform, every property list
InitParse ==
    /\ StartState
    /\ platform = DefaultPlatform

NextParse ==
    \/ \E e \in ParseEvents : Invoke(e)
    \/ \E kind \in ResponseKinds : ProductsResponse(kind)
    \/ \E kind \in ResponseKinds : LocationsResponse(kind)
    \/ \E kind \in ResponseKinds : LevelsResponse(kind)
    \/ Deliver

SpecParse == InitParse /\ [][NextParse]_vars

(***************************************************************************)
(* Properties                                                              *)
(***************************************************************************)
\* the handler has answered from the inventory check
StockAnswered == pc = "responded" /\ response.body.kind = "stock"

\* some variant on one of the pages 1..last of the catalog has the SKU
SkuOnPages(sku, last) ==
    \E k \in 1..last : k <= Len(platform.catalog) /\
        \E i \in 1..Len(platform.catalog[k].products) :
            \E j \in 1..Len(platform.catalog[k].products[i].variants) :
                platform.catalog[k].products[i].variants[j].sku = sku

\* every page but the last names the next page in a rel="next" link
Chained ==
    \A k \in 1..(Len(platform.catalog) - 1) :
        \E i \in 1..Len(platform.catalog[k].link) :
            platform.catalog[k].link[i] = [page_info |-> k + 1, rel |-> "next"]

\* the calls made for line item i to an endpoint, as positions in the log
CallsFor(i, endpoint) ==
    {k \in 1..Len(requests) : requests[k].item = i /\ requests[k].endpoint = endpoint}

\* the line items whose lookup has returned a value
LookedUp == {i \in 1..Len(results) : "variantFound" \in DOMAIN results[i].debug}

\* the line items with a successful inventory read
InventoryRead == {i \in 1..Len(results) : "totalAvailable" \in DOMAIN results[i].debug}

\* the levels the platform returned for line item i
ReturnedLevels(i) ==
    LevelsFor(platform, requests[CHOOSE k \in CallsFor(i, "inventory_levels") : TRUE])

\* the quantity of a returned level: null, missing and 0 count 0
QuantityOf(level) ==
    IF "available" \notin DOMAIN level THEN 0
    ELSE IF level.available = NullQty THEN 0
    ELSE level.available.n

RECURSIVE SumOfQuantities(_)
SumOfQuantities(levels) ==
    IF levels = <<>> THEN 0
    ELSE SumOfQuantities(SubSeq(levels, 1, Len(levels) - 1)) + QuantityOf(levels[Len(levels)])

\* C1: when the handler answers from the inventory check, there is one stock
\* result for each of the two line items, available is true exactly when
\* both results are available, and otherwise outOfStockItems lists exactly
\* the unavailable results, in order.
C1_AnswerIsConjunctionOfResults ==
    StockAnswered =>
        LET rs == response.body.stockResults
        IN /\ Len(lineItems) = 2 /\ Len(rs) = 2
           /\ \A i \in 1..2 : rs[i].sku = lineItems[i].sku
           /\ response.body.available = (rs[1].available /\ rs[2].available)
           /\ ~response.body.available =>
                response.body.outOfStockItems =
                    (IF rs[1].available THEN <<>> ELSE <<rs[1]>>)
                    \o (IF rs[2].available THEN <<>> ELSE <<rs[2]>>)

C1_Witness ==
    /\ StockAnswered
    /\ ~response.body.available
    /\ response.body.stockResults[1].available
    /\ Len(response.body.outOfStockItems) = 1

\* C2 as stated: on a chained catalog of any length, a lookup that returns
\* says found exactly when some variant of the whole catalog has the SKU.
C2_FullCatalogScan ==
    Chained =>
        /\ \A i \in LookedUp :
            results[i].debug.variantFound = SkuOnPages(results[i].sku, Len(platform.catalog))
        /\ pc \in {"locations", "levels"} => variantResult.found

\* C2 as amended: on a chained catalog, a lookup that returns says found
\* exactly when some variant on one of the first maxPages pages has the SKU.
C2_FirstPagesScan ==
    Chained =>
        /\ \A i \in LookedUp :
            results[i].debug.variantFound = SkuOnPages(results[i].sku, maxPages)
        /\ pc \in {"locations", "levels"} =>
            variantResult.found /\ SkuOnPages(lineItems[idx].sku, maxPages)

C2_Witness ==
    /\ Chained
    /\ Len(platform.catalog) = maxPages
    /\ \E i \in LookedUp :
        /\ results[i].debug.variantFound
        /\ ~SkuOnPages(results[i].sku, maxPages - 1)

\* C3: a lookup sends at least 1 and at most maxPages products calls, whatever
\* the platform answers; the loop never starts a page past maxPages.
C3_PageRequestsBounded ==
    /\ pageCount <= maxPages
    /\ \A i \in 1..idx :
        /\ Cardinality(CallsFor(i, "products")) >= 1
        /\ Cardinality(CallsFor(i, "products")) <= maxPages

C3_Witness ==
    /\ pc = "responded"
    /\ \A k \in 1..Len(platform.catalog) : NextCursor(platform.catalog[k].link) # 0
    /\ Cardinality(CallsFor(1, "products")) = maxPages
    /\ \A k \in CallsFor(1, "products") : requests[k].reply = "ok"

\* C4: an inventory read whose two fetches succeed with at least one location
\* succeeds; its total is the sum of the returned quantities (null, missing
\* and 0 as 0, negative as it is) and its locations are the returned levels,
\* one each, in order.
C4_TotalIsSumOfLevels ==
    /\ \A i \in 1..Len(results) :
        (\E k \in CallsFor(i, "inventory_levels") : requests[k].reply = "ok")
            => i \in InventoryRead
    /\ \A i \in InventoryRead :
        LET levels == ReturnedLevels(i)
            breakdown == results[i].debug.locations
        IN /\ results[i].debug.totalAvailable = SumOfQuantities(levels)
           /\ Len(breakdown) = Len(levels)
           /\ \A j \in 1..Len(levels) :
                /\ breakdown[j].locationId = levels[j].location_id
                /\ breakdown[j].available = QuantityOf(levels[j])

C4_Witness ==
    \E i \in InventoryRead :
        LET levels == ReturnedLevels(i)
        IN /\ Len(levels) = 2
           /\ "available" \in DOMAIN levels[1] /\ levels[1].available = NullQty
           /\ QuantityOf(levels[2]) < 0
           /\ results[i].debug.totalAvailable < 0

\* C5: for a tracked variant whose inventory was read, the result is available
\* exactly when the total over the locations is at least the requested
\* quantity, and availableQuantity is that total.
C5_AvailableIffEnoughStock ==
    \A i \in InventoryRead :
        LET total == SumOfQuantities(ReturnedLevels(i))
        IN /\ results[i].available = (total >= lineItems[i].quantity)
           /\ results[i].availableQuantity = Num(total)

C5_Witness ==
    \E i \in InventoryRead :
        /\ SumOfQuantities(ReturnedLevels(i)) = lineItems[i].quantity
        /\ results[i].available
        /\ Len(ReturnedLevels(i)) = 2

RECURSIVE ProductsOf(_)
ProductsOf(catalog) ==
    IF catalog = <<>> THEN <<>> ELSE Head(catalog).products \o ProductsOf(Tail(catalog))

\* the inventory_management values of the catalog's variants with the SKU
ManagementsOf(sku) ==
    LET all == VariantsOf(ProductsOf(platform.catalog))
    IN {all[i].variant.inventory_management :
            i \in {j \in 1..Len(all) : all[j].variant.sku = sku}}

\* C6: a line item whose found variant is not managed by 'shopify' (null and
\* missing included) is available with quantity 'unlimited', and no locations
\* call and no inventory_levels call is made for it.
C6_UntrackedIsUnlimited ==
    \A i \in LookedUp :
        (results[i].debug.variantFound /\ "shopify" \notin ManagementsOf(results[i].sku)) =>
            /\ results[i].available
            /\ results[i].availableQuantity = Unlimited
            /\ CallsFor(i, "locations") = {}
            /\ CallsFor(i, "inventory_levels") = {}

C6_Witness ==
    \E i \in LookedUp :
        /\ results[i].debug.variantFound
        /\ ManagementsOf(results[i].sku) = {Undefined}
        /\ results[i].availableQuantity = Unlimited

\* C7: no step changes the platform, and every call made is a GET of the
\* products, locations or inventory_levels endpoint.
C7_ReadOnly ==
    [][/\ platform' = platform
       /\ \A k \in 1..Len(requests') :
            /\ requests'[k].method = "GET"
            /\ requests'[k].endpoint \in {"products", "locations", "inventory_levels"}]_vars

C7_Witness ==
    /\ pc = "responded"
    /\ \A endpoint \in {"products", "locations", "inventory_levels"} :
        \A i \in 1..2 : CallsFor(i, endpoint) # {}

\* the handler has parsed the properties of the request
Parsed ==
    /\ pc # "idle"
    /\ event.httpMethod = "POST" /\ event.bodyParses /\ event.hasProperties
    /\ event.credentials

\* C8: with 0, 1, 3 or more line items the handler answers 400 with an error
\* and makes no call; it calls the platform only with exactly 2 line items.
C8_OnlyBundlesOfTwo ==
    /\ (Parsed /\ Len(lineItems) # 2) =>
        /\ pc = "responded"
        /\ response.statusCode = 400
        /\ response.body.kind = "error"
        /\ requests = <<>>
    /\ requests # <<>> => Len(lineItems) = 2
    /\ (Parsed /\ Len(lineItems) = 2) => requests # <<>>

C8_Witness ==
    /\ Parsed
    /\ Len(lineItems) = 3
    /\ response.statusCode = 400

(***************************************************************************)
(* C9. The selection of a request: for a product of the mapping and one    *)
(* of its key options, the value of the last property of the request       *)
(* whose key names that product and that option.                           *)
(***************************************************************************)
KeyOptions(product) ==
    IF product \in {MaxComfort, FoamLock} THEN <<"Profile", "Arch Support", "Size">>
    ELSE IF product = Slides THEN <<"Color", "Size">>
    ELSE <<"Size">>

Selected(properties, product, option) ==
    LET hits == {i \in 1..Len(properties) :
                    /\ KeyMatch(properties[i].key).matched
                    /\ KeyMatch(properties[i].key).productName = product
                    /\ KeyMatch(properties[i].key).optionType = option}
    IN IF hits = {} THEN Undefined
       ELSE properties[CHOOSE i \in hits : \A j \in hits : j <= i].value

\* the SKU the mapping gives a product for the selection of the request
RECURSIVE JoinWith(_, _)
JoinWith(values, separator) ==
    IF Len(values) = 1 THEN values[1]
    ELSE values[1] \o separator \o JoinWith(Tail(values), separator)

SelectedSku(properties, product) ==
    LET options == KeyOptions(product)
        values == [i \in 1..Len(options) |-> Selected(properties, product, options[i])]
    IN IF \E i \in 1..Len(values) : ~Truthy(values[i]) THEN Null
       ELSE IF JoinWith(values, "|") \in DOMAIN PRODUCT_SKU_MAPPING[product]
       THEN PRODUCT_SKU_MAPPING[product][JoinWith(values, "|")]
       ELSE Null

\* C9: the SKUs resolved for a request are those the mapping gives each
\* product for the values the request selects for that product's key
\* options, and depend on nothing else.
C9_SkuFromOwnKeyOptions ==
    Parsed =>
        {lineItems[i].sku : i \in 1..Len(lineItems)} =
            {SelectedSku(event.properties, product) :
                product \in DOMAIN PRODUCT_SKU_MAPPING} \ {Null}

\* C10: an inventory_levels call directly follows a locations call made for
\* the same line item and answered ok with at least one location; it names
\* every location id of that answer, and it is the only one for the item.
C10_LevelsQueryNamesAllLocations ==
    \A k \in 1..Len(requests) :
        requests[k].endpoint = "inventory_levels" =>
            /\ k > 1
            /\ requests[k - 1].endpoint = "locations"
            /\ requests[k - 1].item = requests[k].item
            /\ requests[k - 1].reply = "ok"
            /\ Len(platform.locations) >= 1
            /\ Len(requests[k].location_ids) = Len(platform.locations)
            /\ \A j \in 1..Len(platform.locations) :
                requests[k].location_ids[j] = platform.locations[j].id
            /\ CallsFor(requests[k].item, "inventory_levels") = {k}

C10_Witness ==
    \E k \in 1..Len(requests) :
        /\ requests[k].endpoint = "inventory_levels"
        /\ Len(requests[k].location_ids) = 2
        /\ requests[k].reply = "ok"

\* the rel="next" links of the page a products call was answered with
NextLinks(k) ==
    LET link == PageFor(platform, requests[k]).link
    IN {link[i] : i \in {j \in 1..Len(link) : link[j].rel = "next"}}

\* call k is a products call that is not the first of its lookup
LaterPage(k) ==
    /\ requests[k].endpoint = "products"
    /\ k > 1
    /\ requests[k - 1].item = requests[k].item

\* C11: within a lookup, every products call after the first directly follows
\* a products call answered ok and carries exactly the cursor of the
\* rel="next" link of that answer, never that of another link of the header;
\* after an answer without a rel="next" link the lookup makes no further call.
C11_CursorFollowsNextLink ==
    \A k \in 1..Len(requests) :
        /\ LaterPage(k) =>
            /\ requests[k - 1].endpoint = "products"
            /\ requests[k - 1].reply = "ok"
            /\ requests[k].page_info # 0
            /\ NextLinks(k - 1) # {}
            /\ \A l \in NextLinks(k - 1) : requests[k].page_info = l.page_info
        /\ (requests[k].endpoint = "products" /\ requests[k].reply = "ok"
            /\ NextLinks(k) = {}) =>
                \A j \in (k + 1)..Len(requests) :
                    requests[j].item = requests[k].item => requests[j].endpoint # "products"

C11_Witness ==
    \E k \in 1..Len(requests) :
        /\ LaterPage(k)
        /\ \E i \in 1..Len(PageFor(platform, requests[k - 1]).link) :
            LET l == PageFor(platform, requests[k - 1]).link[i]
            IN l.rel = "previous" /\ l.page_info # requests[k].page_info
        /\ requests[k].reply = "ok"
        /\ NextLinks(k) = {}
        /\ k < Len(requests)

\* the pages line item i's lookup has fetched, in fetch order
FetchedPages(i) ==
    LET calls == {k \in CallsFor(i, "products") : requests[k].reply = "ok"}
        first == CHOOSE k \in CallsFor(i, "products") :
                    \A j \in CallsFor(i, "products") : k <= j
    IN [n \in 1..Cardinality(calls) |-> PageFor(platform, requests[first + n - 1])]

\* the places <<page, product, variant>> of the fetched pages where a variant
\* has exactly the SKU
PlacesOf(pages, sku) ==
    UNION {UNION {{<<p, q, v>> : v \in {w \in 1..Len(pages[p].products[q].variants) :
                                        pages[p].products[q].variants[w].sku = sku}} :
                  q \in 1..Len(pages[p].products)} :
           p \in 1..Len(pages)}

\* catalog order: pages, then products, then variants
Before(a, b) ==
    \/ a[1] < b[1]
    \/ a[1] = b[1] /\ a[2] < b[2]
    \/ a[1] = b[1] /\ a[2] = b[2] /\ a[3] < b[3]

FirstPlace(places) == CHOOSE a \in places : \A b \in places \ {a} : Before(a, b)

RECURSIVE CountProducts(_)
CountProducts(pages) ==
    IF pages = <<>> THEN 0
    ELSE CountProducts(SubSeq(pages, 1, Len(pages) - 1)) + Len(pages[Len(pages)].products)

\* C12: a lookup that returns found returns the first variant, in catalog
\* order over the fetched pages, whose sku is exactly the requested SKU, with
\* its product, and searchedProducts is the number of products on the
\* fetched pages; the stock result names that variant.
C12_FirstVariantInCatalogOrder ==
    /\ pc \in {"locations", "levels"} =>
        LET pages == FetchedPages(idx)
            places == PlacesOf(pages, lineItems[idx].sku)
            at == FirstPlace(places)
        IN /\ variantResult.found
           /\ places # {}
           /\ variantResult.variant = pages[at[1]].products[at[2]].variants[at[3]]
           /\ variantResult.product = pages[at[1]].products[at[2]].id
           /\ variantResult.searchedProducts = CountProducts(pages)
    /\ \A i \in LookedUp :
        results[i].debug.variantFound =>
            LET pages == FetchedPages(i)
                places == PlacesOf(pages, lineItems[i].sku)
                at == FirstPlace(places)
            IN /\ places # {}
               /\ results[i].variantId = pages[at[1]].products[at[2]].variants[at[3]].id

C12_Witness ==
    /\ pc = "locations"
    /\ Cardinality(PlacesOf(FetchedPages(idx), lineItems[idx].sku)) = 3
    /\ FirstPlace(PlacesOf(FetchedPages(idx), lineItems[idx].sku)) = <<1, 2, 1>>
    /\ variantResult.variant.id = 301
    /\ variantResult.searchedProducts = 4

\* the SKUs the mapping lists for a product
SkusOf(product) ==
    {PRODUCT_SKU_MAPPING[product][key] : key \in DOMAIN PRODUCT_SKU_MAPPING[product]}

\* C13: the parser gives exactly one line item, of quantity 1, for each
\* product of the mapping whose key options the request all selects with a
\* combination the mapping lists, and no line item for anything else: keys
\* without a colon, other product names, a missing key option, an unlisted
\* combination.
C13_OneLineItemPerSelectedProduct ==
    Parsed =>
        /\ \A i \in 1..Len(lineItems) : lineItems[i].quantity = 1
        /\ \A product \in DOMAIN PRODUCT_SKU_MAPPING :
            LET items == {i \in 1..Len(lineItems) : lineItems[i].sku \in SkusOf(product)}
            IN IF SelectedSku(event.properties, product) = Null
               THEN items = {}
               ELSE /\ Cardinality(items) = 1
                    /\ \A i \in items :
                        lineItems[i].sku = SelectedSku(event.properties, product)
        /\ Len(lineItems) =
            Cardinality({product \in DOMAIN PRODUCT_SKU_MAPPING :
                            SelectedSku(event.properties, product) # Null})

\* the first variant with line item i's SKU on the pages fetched for it
FoundVariant(i) ==
    LET pages == FetchedPages(i)
        at == FirstPlace(PlacesOf(pages, lineItems[i].sku))
    IN pages[at[1]].products[at[2]].variants[at[3]]

\* line item i's inventory was read: its locations call and its
\* inventory_levels call were answered ok
ReadOk(i) ==
    /\ \E k \in CallsFor(i, "locations") : requests[k].reply = "ok"
    /\ \E k \in CallsFor(i, "inventory_levels") : requests[k].reply = "ok"

\* C14: the handler answers available only if, for each of the two line
\* items, a variant with its SKU is on the pages fetched for it and that
\* variant either is not managed by 'shopify' or had its inventory read with
\* a total of at least the item's quantity.
C14_FailsClosed ==
    (StockAnswered /\ response.body.available) =>
        /\ Len(lineItems) = 2
        /\ \A i \in 1..2 :
            /\ PlacesOf(FetchedPages(i), lineItems[i].sku) # {}
            /\ \/ FoundVariant(i).inventory_management # "shopify"
               \/ /\ ReadOk(i)
                  /\ SumOfQuantities(ReturnedLevels(i)) >= lineItems[i].quantity

C14_Witness ==
    /\ StockAnswered
    /\ response.body.available
    /\ FoundVariant(1).inventory_management # "shopify"
    /\ FoundVariant(2).inventory_management = "shopify"
    /\ ReadOk(2)
    /\ ~ReadOk(1)

\* the platform failed while line item i was checked: one of its calls was
\* answered not ok or threw, or its locations call returned no location
PlatformFailed(i) ==
    \/ \E k \in 1..Len(requests) :
            requests[k].item = i /\ requests[k].reply \in {"notok", "throws"}
    \/ /\ \E k \in CallsFor(i, "locations") : requests[k].reply = "ok"
       /\ Len(platform.locations) = 0

\* C15: a platform failure while a line item is checked is recorded at once
\* as a result with available false, an error and availableQuantity 0; the
\* check goes on with the next line item, and the handler answers 200 with
\* available false and both results, never 500.
C15_FailureIsUnavailableNotAbort ==
    /\ \A i \in 1..Len(lineItems) :
        PlatformFailed(i) =>
            /\ i <= Len(results)
            /\ ~results[i].available
            /\ "error" \in DOMAIN results[i]
            /\ Truthy(results[i].error)
            /\ results[i].availableQuantity = Num(0)
            /\ i < Len(lineItems) => CallsFor(i + 1, "products") # {}
            /\ pc = "responded" =>
                /\ response.statusCode = 200
                /\ response.body.kind = "stock"
                /\ ~response.body.available
                /\ Len(response.body.stockResults) = Len(lineItems)
                /\ response.body.stockResults[i] = results[i]
    /\ (pc = "responded" /\ requests # <<>>) => response.statusCode = 200

C15_Witness ==
    /\ pc = "responded"
    /\ \E k \in CallsFor(1, "inventory_levels") : requests[k].reply = "throws"
    /\ ReadOk(2)
    /\ results[2].available
    /\ response.statusCode = 200
    /\ ~response.body.available

\* C16: checkInventoryLevels keeps one stock result for each line item it
\* has finished, in the order of the line items and with the sku and the
\* quantity of its line item; what it returns has one result per line item.
C16_OneResultPerLineItem ==
    /\ Len(results) <= Len(lineItems)
    /\ \A i \in 1..Len(results) :
        /\ results[i].sku = lineItems[i].sku
        /\ results[i].quantity = lineItems[i].quantity
    /\ pc \in {"products", "locations", "levels"} => Len(results) = idx - 1
    /\ StockAnswered =>
        /\ Len(results) = Len(lineItems)
        /\ response.body.stockResults = results

C16_Witness ==
    /\ StockAnswered
    /\ lineItems[1].sku # lineItems[2].sku
    /\ "exception" \in DOMAIN results[1].debug
    /\ "inventoryCheckFailed" \in DOMAIN results[2].debug

\* the place of an endpoint in the check of one line item
Rank(endpoint) ==
    IF endpoint = "products" THEN 1 ELSE IF endpoint = "locations" THEN 2 ELSE 3

\* C17: the calls are made line item by line item: a call for a line item
\* is made only when every earlier line item has its result and none of its
\* calls is pending; for one line item the calls are products pages, then
\* locations, then inventory_levels; each line item's first call is a
\* products call without page_info.
C17_OneItemAfterTheOther ==
    \A k \in 1..Len(requests) :
        /\ requests[k].item \in 1..Len(lineItems)
        /\ Len(results) >= requests[k].item - 1
        /\ \A j \in 1..(k - 1) :
            /\ requests[j].item <= requests[k].item
            /\ requests[j].reply # "pending"
            /\ requests[j].item = requests[k].item =>
                Rank(requests[j].endpoint) <= Rank(requests[k].endpoint)
        /\ (k = 1 \/ requests[k - 1].item # requests[k].item) =>
            /\ requests[k].endpoint = "products"
            /\ requests[k].page_info = 0
            /\ k > 1 => requests[k].item = requests[k - 1].item + 1

C17_Witness ==
    /\ pc = "responded"
    /\ Cardinality(CallsFor(1, "products")) >= 2
    /\ CallsFor(1, "inventory_levels") # {}
    /\ Cardinality(CallsFor(2, "products")) >= 2
    /\ CallsFor(2, "inventory_levels") # {}

\* the availability of a found variant from its tracking, the outcome of
\* its inventory read and its quantities: the policy is no part of it
AvailableWhateverPolicy(i, management) ==
    IF management # "shopify" THEN TRUE
    ELSE /\ ReadOk(i)
         /\ SumOfQuantities(ReturnedLevels(i)) >= lineItems[i].quantity

\* C18: the available value of a found variant is the same under either
\* inventory_policy: it is given by the tracking, the inventory read and the
\* quantities alone, and a tracked variant with a total of 0 is unavailable
\* also when its policy is 'continue'.
C18_PolicyDoesNotDecide ==
    \A i \in LookedUp :
        results[i].debug.variantFound =>
            LET variant == FoundVariant(i)
            IN /\ results[i].available =
                    AvailableWhateverPolicy(i, variant.inventory_management)
               /\ (/\ variant.inventory_management = "shopify"
                   /\ variant.inventory_policy = "continue"
                   /\ i \in InventoryRead
                   /\ results[i].debug.totalAvailable = 0) => ~results[i].available

C18_Witness ==
    \E i \in InventoryRead :
        /\ results[i].inventoryPolicy = "continue"
        /\ results[i].inventoryManagement = "shopify"
        /\ SumOfQuantities(ReturnedLevels(i)) = 0
        /\ results[i].debug.totalAvailable = 0
        /\ ~results[i].available
====
